---- MODULE Spec2Model ----
(***************************************************************************)
(* Model of the company-information lookups of company_info.py:            *)
(* get_company_website, get_company_owner and get_company_products.        *)
(*                                                                         *)
(* A text is a sequence of tokens.  The two section markers, the newline,  *)
(* the space, the two sentinel words and ordinary words are the tokens;    *)
(* the markers and the sentinels cannot overlap each other or themselves,  *)
(* so treating them as single tokens loses no case of str.split,           *)
(* str.replace, str.strip or the `in` test.                                *)
(***************************************************************************)
EXTENDS Integers, Sequences, FiniteSets, TLC

\* Longest response text the service returns in the model.
MaxLen == 4

\* company_info.py line 67 (and 172, 277).
max_attempts == 3

RAW_MARKER == "RAW_SEARCH_RESULTS:"
ANALYSIS_MARKER == "CLAUDE_ANALYSIS:"
NL == "\n"
SP == " "
BLANK_LINE == <<NL, NL>>
NOT_EXACT_MATCH == <<"NOT_EXACT_MATCH">>
Unknown == <<"Unknown">>

\* What str.strip() removes.
Whitespace == {NL, SP}

Alphabet == {RAW_MARKER, ANALYSIS_MARKER, NL, SP, "x", "NOT_EXACT_MATCH", "Unknown"}

\* "RAW_SEARCH_RESULTS:\nfoo\nCLAUDE_ANALYSIS:\nbar\n\nacme.com"
WellFormedResponse ==
    <<RAW_MARKER, NL, "foo", NL, ANALYSIS_MARKER, NL, "bar", NL, NL, "acme.com">>

\* "Here you go: RAW_SEARCH_RESULTS:\nfoo\nCLAUDE_ANALYSIS:\nbar\n\nacme.com"
PreambleResponse == <<"Here you go:", SP>> \o WellFormedResponse

\* "Just some text"
PlainResponse == <<"Just", SP, "some", SP, "text">>

\* "RAW_SEARCH_RESULTS:\nfoo\nCLAUDE_ANALYSIS:\nbar\n\nNOT_EXACT_MATCH"
AmbiguousResponse ==
    <<RAW_MARKER, NL, "foo", NL, ANALYSIS_MARKER, NL, "bar", NL, NL, "NOT_EXACT_MATCH">>

\* "RAW_SEARCH_RESULTS:\nfoo\nCLAUDE_ANALYSIS:\nbar\n\nUnknown"
UnknownResponse ==
    <<RAW_MARKER, NL, "foo", NL, ANALYSIS_MARKER, NL, "bar", NL, NL, "Unknown">>

\* "RAW_SEARCH_RESULTS:\nfoo\nCLAUDE_ANALYSIS:\nbar\n\nacme.com\n\nnote"
TrailingNoteResponse == WellFormedResponse \o <<NL, NL, "note">>

LongResponses ==
    {WellFormedResponse, PreambleResponse, PlainResponse, AmbiguousResponse,
     UnknownResponse, TrailingNoteResponse}

\* Every text the service can return: all of up to MaxLen tokens, and the
\* longer ones above.
Texts == UNION {[1..n -> Alphabet] : n \in 0..MaxLen} \cup LongResponses

\* The value of a variable that has not been assigned yet.
None == <<"None">>

\* The locals of the parse step before any of them is assigned.
NoSections ==
    [full_response |-> None, raw_results |-> None, claude_analysis |-> None,
     final_answer |-> None, determination |-> None, raised |-> FALSE]

Lookups == {"website", "owner", "products"}

\* The texts the service returns to a lookup that main runs: the longer
\* responses and the empty one.
MainTexts == LongResponses \cup {<<>>}

\* args.company_name
COMPANY == <<"Acme">>

\* main's results before line 373 or 390 assigns it.
NoResults ==
    [company_name |-> None, website |-> None, owner |-> None,
     products_services |-> None, exact_match |-> FALSE]

\* The values of the environment variable: unset, set to "", set to a key.
Environs == {None, <<>>, <<"sk-ant-key">>}

\* The command lines: with or without the company name and --output FILE.
Argvs == [company_name : BOOLEAN, output : {None, <<"out.json">>}]

-----------------------------------------------------------------------------
(* perplexity_server.py: the values of a tool call. *)

Tools == {"search_web", "search_image", "ask_factual_question"}

\* line 28
valid_models == <<"sonar-pro", "sonar-small", "sonar-medium", "codellama-70b", "mistral-7b">>

\* The model arguments of a call: the valid ones and some that are not.
ModelArgs ==
    {valid_models[i] : i \in 1..Len(valid_models)} \cup {"gpt-4", "Sonar-Pro", ""}

\* The messages of the exceptions client.chat.completions.create raises.
ErrorMessages ==
    {<<"Authentication", SP, "failed">>,
     <<"AUTHENTICATION", SP, "timeout">>,
     <<"Rate", SP, "limit", SP, "exceeded">>,
     <<"rate", SP, "limit", SP, "after", SP, "Timeout">>,
     <<"Request", SP, "timeout">>,
     <<"Request", SP, "timed", SP, "out">>,
     <<"Connection", SP, "error">>,
     <<>>}

\* response.citations: None (also for a response without the attribute), an
\* empty list, or a list of citations.
Citations == {None, <<>>, <<"a.com">>, <<"b.org", "a.com">>, <<"a.com", "b.org", "c.net">>}

\* message.content: a text, or None.
Contents == {None, <<>>, <<"answer">>, <<"Error", SP, "answer">>}

\* What the service does with a request: it raises, or it returns a
\* response of no or one choice, with or without citations.
ToolReplies ==
    [error : ErrorMessages, choices : {<<>>}, citations : {None}]
    \cup [error : {None}, choices : {<<>>} \cup {<<c>> : c \in Contents},
          citations : Citations]

\* No request was sent yet.
NoReply == [error |-> None, choices |-> <<>>, citations |-> None]

-----------------------------------------------------------------------------
(* smartbroker_script.py: the texts of a conversation. *)

\* Iterations of the loop of investigate_company that the model follows.
MaxIterations == 2

\* line 90
ANTHROPIC_ERROR == <<"Error", ": Could not get a response from Claude.">>

\* line 113
PERPLEXITY_ERROR == <<"Error", ": Could not get search results.">>

\* What a reply says about a search: nothing, "Search query: ...\n", or
\* "I suggest searching for: ..." up to the end of the reply.
SearchParts ==
    {<<>>,
     <<"Search query", ":", SP, "acme employees", SP, NL>>,
     <<"I", SP, "suggest searching for", ":", SP, "acme funding", SP>>}

\* What a reply says about the criteria.
CriterionParts ==
    {<<>>,
     <<"Another criterion", "?">>,
     <<"next criterion">>,
     <<"Would you like to investigate", SP, "more", "?">>}

\* What a reply says about the end of the investigation.
CompleteParts ==
    {<<>>,
     <<"investigation", SP, "complete", "d">>,
     <<"The", SP, "Investigation", SP, "is", SP, "COMPLETE">>,
     <<"investigation", SP, "incomplete">>}

\* The texts the chat service returns.
Replies ==
    {<<"OK", SP>> \o c \o k \o <<SP>> \o s :
        s \in SearchParts, c \in CriterionParts, k \in CompleteParts}

\* The texts the chat service returns as the analysis of search results:
\* those that suggest no search and ask for no criterion.
Analyses == {<<"OK", SP>> \o k : k \in CompleteParts}

\* What requests.post and the reading of its response do: the post raises
\* (no response object), the status is an error, the body is not the JSON
\* expected, or the text arrives.
PostOutcomes(texts) ==
    [kind : {"connection", "status", "malformed"}, text : {None}]
    \cup [kind : {"ok"}, text : texts]

\* The texts the search service returns.
SearchTexts == {<<"results">>}

\* What the user types at line 199.
ModifiedQueries == {<<>>, <<"my query">>}

-----------------------------------------------------------------------------
(* Python string operations, as the code uses them. *)

\* A local variable: F of the value of v, v evaluated once.
Bind(v, F(_)) == CHOOSE r \in {F(x) : x \in {v}} : TRUE

StartsAt(s, pat, i) ==
    /\ i + Len(pat) - 1 <= Len(s)
    /\ \A k \in 1..Len(pat) : s[i + k - 1] = pat[k]

\* pat in s
Contains(s, pat) == \E i \in 1..Len(s) : StartsAt(s, pat, i)

\* The last occurrence instead of the first (rsplit for split).
Find_Last(s, pat) ==
    CHOOSE i \in 1..Len(s) :
        StartsAt(s, pat, i) /\ \A j \in (i + 1)..Len(s) : ~StartsAt(s, pat, j)

\* s.find(pat), for a pat that s contains (1-based)
Find(s, pat) ==
    CHOOSE i \in 1..Len(s) :
        StartsAt(s, pat, i) /\ \A j \in 1..(i - 1) : ~StartsAt(s, pat, j)

\* s.split(pat, 1)
Split1(s, pat) ==
    IF Contains(s, pat)
    THEN LET i == Find(s, pat)
         IN  <<SubSeq(s, 1, i - 1), SubSeq(s, i + Len(pat), Len(s))>>
    ELSE <<s>>

\* s.replace(pat, "", 1)
ReplaceFirst(s, pat) ==
    IF Contains(s, pat)
    THEN LET i == Find(s, pat)
         IN  SubSeq(s, 1, i - 1) \o SubSeq(s, i + Len(pat), Len(s))
    ELSE s

\* lstrip for strip.
Strip_LeadingOnly(s) ==
    LET keep == {i \in 1..Len(s) : s[i] \notin Whitespace}
    IN  IF keep = {} THEN <<>>
        ELSE SubSeq(s, CHOOSE i \in keep : \A j \in keep : i <= j, Len(s))

\* s.strip()
Strip(s) ==
    LET keep == {i \in 1..Len(s) : s[i] \notin Whitespace}
    IN  IF keep = {} THEN <<>>
        ELSE SubSeq(s, CHOOSE i \in keep : \A j \in keep : i <= j,
                       CHOOSE i \in keep : \A j \in keep : j <= i)

-----------------------------------------------------------------------------
(* The parse step of a lookup: lines 89-136. *)

\* `or` for `and`.
HasBothMarkers_Either(full_response) ==
    \/ Contains(full_response, <<RAW_MARKER>>)
    \/ Contains(full_response, <<ANALYSIS_MARKER>>)

\* line 101
HasBothMarkers(full_response) ==
    /\ Contains(full_response, <<RAW_MARKER>>)
    /\ Contains(full_response, <<ANALYSIS_MARKER>>)

\* lines 104-105; before is Python's parts[0]
RawResults(before) == Strip(ReplaceFirst(before, <<RAW_MARKER>>))

\* Without a blank line the tail is taken for the answer.
TailSections_TailIsAnswer(tail) ==
    IF Contains(tail, BLANK_LINE)
    THEN Bind(Split1(tail, BLANK_LINE), LAMBDA analysis_parts :
             [claude_analysis |-> Strip(analysis_parts[1]),
              final_answer |-> IF Len(analysis_parts) > 1
                               THEN Strip(analysis_parts[2])
                               ELSE Unknown])
    ELSE [claude_analysis |-> <<>>, final_answer |-> Strip(tail)]

\* lines 108-117; tail is Python's parts[1]
TailSections(tail) ==
    IF Contains(tail, BLANK_LINE)
    THEN Bind(Split1(tail, BLANK_LINE), LAMBDA analysis_parts :
             [claude_analysis |-> Strip(analysis_parts[1]),
              final_answer |-> IF Len(analysis_parts) > 1
                               THEN Strip(analysis_parts[2])
                               ELSE Unknown])
    ELSE [claude_analysis |-> Strip(tail), final_answer |-> Unknown]

\* lines 97-122.  raised: an index past the end of a list (IndexError).
ExtractSections(full_response) ==
    IF HasBothMarkers(full_response)
    THEN Bind(Split1(full_response, <<ANALYSIS_MARKER>>), LAMBDA parts :
             IF Len(parts) < 2
             THEN [raw_results |-> <<>>, claude_analysis |-> <<>>,
                   final_answer |-> <<>>, raised |-> TRUE]
             ELSE Bind(TailSections(parts[2]), LAMBDA t :
                      [raw_results |-> RawResults(parts[1]),
                       claude_analysis |-> t.claude_analysis,
                       final_answer |-> t.final_answer,
                       raised |-> FALSE]))
    ELSE [raw_results |-> <<>>, claude_analysis |-> <<>>,
          final_answer |-> Strip(full_response), raised |-> FALSE]

\* lines 89-136: the sections and the determination of a response text
Parse(text) ==
    Bind(Strip(text), LAMBDA full_response :
        Bind(ExtractSections(full_response), LAMBDA s :
            [full_response |-> full_response,
             raw_results |-> s.raw_results,
             claude_analysis |-> s.claude_analysis,
             final_answer |-> s.final_answer,
             determination |-> Strip(s.final_answer),
             raised |-> s.raised]))

-----------------------------------------------------------------------------
VARIABLES
    lookup,          \* the function that runs
    pc,              \* where it stands
    attempt,         \* the loop variable of line 68
    requests,        \* the remote calls made so far
    response,        \* response.content[0].text of the last call
    parsed,          \* full_response, raw_results, claude_analysis, final_answer
    determinations,  \* the value of line 136 at each attempt so far
    result           \* the value the function returned

\* company_info.py run as a script
VARIABLES
    environ,         \* os.getenv("ANTHROPIC_API_KEY") after load_dotenv
    argv,            \* the command line: is there a company name, an --output
    mpc,             \* where the script stands
    client,          \* the module's client, line 31
    website,         \* main's local, the lookups' parameter
    owner,
    products,
    results,         \* main's results mapping
    printed,         \* the error reports written to standard output
    written,         \* what json.dump wrote into the --output file
    status           \* the exit status of the process

\* a tool of perplexity_server.py is called
VARIABLES
    tool,            \* the tool that was called
    model_arg,       \* the model argument of the call
    model,           \* the local of search_web, the literal of the other tools
    tpc,             \* where the call stands
    reply,           \* what client.chat.completions.create did
    returned         \* the value the tool returned

\* investigate_company of smartbroker_script.py runs
VARIABLES
    messages,                \* the conversation: role and origin of each message
    spc,                     \* where the function stands
    claude_response,
    analysis,
    investigation_complete,
    iterations               \* the iterations of the loop that have ended

\* api_test.py runs
VARIABLES
    apc,             \* where the script stands
    files            \* the files it has opened for writing

lookupvars == <<lookup, pc, attempt, requests, response, parsed, determinations, result>>

mainvars ==
    <<environ, argv, mpc, client, website, owner, products, results, printed,
      written, status>>

toolvars == <<tool, model_arg, model, tpc, reply, returned>>

scriptvars ==
    <<messages, spc, claude_response, analysis, investigation_complete,
      iterations>>

testvars == <<apc, files>>

vars == <<lookupvars, mainvars, toolvars, scriptvars, testvars>>

-----------------------------------------------------------------------------
(* The request of an attempt: lines 64-87. *)

\* A message that leaves the website out.
UserMessage_NoWebsite(fn) == <<fn>>

\* lines 64, 169, 274: the question of the lookup; the owner and the products
\* questions end with the website they were given
UserMessage(fn) == IF fn = "website" THEN <<fn>> ELSE <<fn>> \o website

\* A clarification that is added on the last attempt only.
Clarification_LastOnly(i) == IF i = 2 THEN <<"last attempt, EXACT company">> ELSE <<>>

\* lines 72-76
Clarification(i) ==
    IF i = 1 THEN <<"search for the EXACT company">>
    ELSE IF i = 2 THEN <<"last attempt, EXACT company">>
    ELSE <<>>

\* line 78
FullMessage(fn, i) == UserMessage(fn) \o Clarification(i)

\* A check that also retries on "Unknown".
IsReturned_KnownOnly(determination) ==
    determination \notin {NOT_EXACT_MATCH, Unknown}

\* line 138: the determination is returned unless it is the ambiguous sentinel
IsReturned(determination) == determination # NOT_EXACT_MATCH

\* One attempt too many.
HasNextAttempt_OffByOne(i) == i + 1 <= max_attempts

\* No retry at all.
HasNextAttempt_Never(i) == FALSE

\* line 68: range(max_attempts) has a value after i
HasNextAttempt(i) == i + 1 < max_attempts

\* A function that returns the last determination when the attempts run out.
AfterLastAttempt_Last == NOT_EXACT_MATCH

\* line 143
AfterLastAttempt == Unknown

-----------------------------------------------------------------------------
\* json.dump of a str or None
JsonValue(v) ==
    IF v = None THEN [type |-> "null", value |-> <<"null">>]
    ELSE [type |-> "string", value |-> v]

\* json.dump of a bool
JsonBool(b) == [type |-> "boolean", value |-> IF b THEN <<"true">> ELSE <<"false">>]

\* line 416: json.dump(results, f); exact_match is the one bool of the mapping
JsonDump(r) ==
    [k \in DOMAIN r |-> IF k = "exact_match" THEN JsonBool(r[k]) ELSE JsonValue(r[k])]

\* The --output file that was not written.
NoFile == [k \in DOMAIN NoResults |-> [type |-> "none", value |-> <<>>]]

\* company_info.py is not run as a script: a lookup is called on its own.
MainIdle ==
    /\ environ = <<"sk-ant-key">>
    /\ argv = [company_name |-> TRUE, output |-> None]
    /\ mpc = "none"
    /\ client = "Anthropic"
    /\ owner = None
    /\ products = None
    /\ results = NoResults
    /\ printed = <<>>
    /\ written = NoFile
    /\ status = "running"

\* No tool of perplexity_server.py is called.
ToolIdle ==
    /\ tool = "none"
    /\ model_arg = "sonar-pro"
    /\ model = "sonar-pro"
    /\ tpc = "idle"
    /\ reply = NoReply
    /\ returned = None

\* investigate_company does not run.
ScriptIdle ==
    /\ messages = <<>>
    /\ spc = "idle"
    /\ claude_response = None
    /\ analysis = None
    /\ investigation_complete = FALSE
    /\ iterations = 0

\* api_test.py does not run.
TestIdle ==
    /\ apc = "idle"
    /\ files = {}

\* One lookup, called with a company name (and a website).
Init ==
    /\ lookup \in Lookups
    /\ pc = "initial"
    /\ attempt = 0
    /\ requests = <<>>
    /\ response = None
    /\ parsed = NoSections
    /\ determinations = <<>>
    /\ result = None
    /\ website = IF lookup = "website" THEN None ELSE <<"acme.com">>
    /\ MainIdle
    /\ ToolIdle
    /\ ScriptIdle
    /\ TestIdle

\* The texts the service can return to the lookup that runs.
ServiceTexts == IF mpc = "none" THEN Texts ELSE MainTexts

\* lines 69-89: the request of this attempt is sent and its response arrives
Request ==
    /\ pc = "initial"
    /\ response' \in ServiceTexts
    /\ requests' = Append(requests, [attempt |-> attempt,
                                     system |-> lookup,
                                     content |-> FullMessage(lookup, attempt)])
    /\ pc' = "response_received"
    /\ UNCHANGED <<lookup, attempt, parsed, determinations, result>>
    /\ UNCHANGED <<mainvars, toolvars, scriptvars, testvars>>

\* A lookup that sends the request again when the call raised.
OnFailure_Retry == "initial"

\* line 80: no handler encloses the call, the exception leaves the function
OnFailure == "raised"

\* line 80: client.messages.create raises; nothing in the function catches it
RequestFails ==
    /\ pc = "initial"
    /\ requests' = Append(requests, [attempt |-> attempt,
                                     system |-> lookup,
                                     content |-> FullMessage(lookup, attempt)])
    /\ pc' = OnFailure
    /\ UNCHANGED <<lookup, attempt, response, parsed, determinations, result>>
    /\ UNCHANGED <<mainvars, toolvars, scriptvars, testvars>>

\* lines 89-139: parse the response, return unless it is NOT_EXACT_MATCH
ParseResponse ==
    /\ pc = "response_received"
    /\ \E p \in {Parse(response)} :
           /\ parsed' = p
           /\ IF p.raised
              THEN /\ pc' = "raised"
                   /\ UNCHANGED <<determinations, result>>
              ELSE /\ determinations' = Append(determinations, p.determination)
                   /\ IF IsReturned(p.determination)
                      THEN /\ result' = p.determination
                           /\ pc' = "returned"
                      ELSE /\ pc' = "ambiguous"
                           /\ UNCHANGED result
    /\ UNCHANGED <<lookup, attempt, requests, response>>
    /\ UNCHANGED <<mainvars, toolvars, scriptvars, testvars>>

\* line 68, then lines 142-143 when the range is exhausted.  The locals of the
\* iteration that ended (response and the parsed sections) are dead here: every
\* one is assigned again before it is read, and the model clears them.
NextAttempt ==
    /\ pc = "ambiguous"
    /\ IF HasNextAttempt(attempt)
       THEN /\ attempt' = attempt + 1
            /\ pc' = "initial"
            /\ response' = None
            /\ parsed' = NoSections
            /\ UNCHANGED result
       ELSE /\ result' = AfterLastAttempt
            /\ pc' = "returned"
            /\ UNCHANGED <<attempt, response, parsed>>
    /\ UNCHANGED <<lookup, requests, determinations>>
    /\ UNCHANGED <<mainvars, toolvars, scriptvars, testvars>>

Next ==
    \/ Request
    \/ RequestFails
    \/ ParseResponse
    \/ NextAttempt

Spec == Init /\ [][Next]_vars

\* The program is sequential and blocking: it always takes its next step.
LiveSpec == Spec /\ WF_vars(Next)

-----------------------------------------------------------------------------
(* company_info.py run as a script: the module's top level (lines 21-31),  *)
(* the entry point (lines 421-427) and main (lines 355-419).               *)

\* `not x` of a string or None
Falsy(x) == x = None \/ x = <<>>

\* len(sys.argv)
ArgvLen(a) == 1 + (IF a.company_name THEN 1 ELSE 0) + (IF a.output # None THEN 2 ELSE 0)

\* A call of the lookup fn: its locals at the top of its loop.
Call(fn) ==
    /\ lookup' = fn
    /\ pc' = "initial"
    /\ attempt' = 0
    /\ response' = None
    /\ parsed' = NoSections
    /\ determinations' = <<>>
    /\ result' = None
    /\ UNCHANGED requests

\* The lookup has returned to main: its frame is gone.
Return ==
    /\ lookup' = None
    /\ pc' = "idle"
    /\ attempt' = 0
    /\ response' = None
    /\ parsed' = NoSections
    /\ determinations' = <<>>
    /\ result' = None
    /\ UNCHANGED requests

\* The process starts: nothing has run.
MainInit ==
    /\ environ \in Environs
    /\ argv \in Argvs
    /\ mpc = "module"
    /\ client = None
    /\ website = None
    /\ owner = None
    /\ products = None
    /\ results = NoResults
    /\ printed = <<>>
    /\ written = NoFile
    /\ status = "running"
    /\ lookup = None
    /\ pc = "idle"
    /\ attempt = 0
    /\ requests = <<>>
    /\ response = None
    /\ parsed = NoSections
    /\ determinations = <<>>
    /\ result = None
    /\ ToolIdle
    /\ ScriptIdle
    /\ TestIdle

\* A check that lets an empty key through.
KeyMissing_NoneOnly(key) == key = None

\* line 26
KeyMissing(key) == Falsy(key)

\* lines 25-31: the key is read and tested, then the client is made
LoadModule ==
    /\ UNCHANGED <<toolvars, scriptvars, testvars>>
    /\ mpc = "module"
    /\ IF KeyMissing(environ)
       THEN /\ printed' = printed \o
                     <<"Error: ANTHROPIC_API_KEY not found in environment variables.",
                       "Please create a .env file with your API key or set it in your environment.">>
            /\ status' = "exit 1"
            /\ mpc' = "exited"
            /\ UNCHANGED client
       ELSE /\ client' = "Anthropic"
            /\ mpc' = "entry"
            /\ UNCHANGED <<printed, status>>
    /\ UNCHANGED <<environ, argv, website, owner, products, results, written>>
    /\ UNCHANGED lookupvars

\* lines 421-427 and 357-365: the usage check, parse_arguments (argparse
\* exits with status 2 without the positional argument), the call of
\* get_company_website
Entry ==
    /\ UNCHANGED <<toolvars, scriptvars, testvars>>
    /\ mpc = "entry"
    /\ IF ArgvLen(argv) < 2
       THEN /\ printed' = printed \o
                     <<"Error: Company name required.",
                       "Usage: python company_info.py \"Company Name\"">>
            /\ status' = "exit 1"
            /\ mpc' = "exited"
            /\ UNCHANGED lookupvars
       ELSE IF ~argv.company_name
       THEN /\ printed' = Append(printed, "usage: the following arguments are required: company_name")
            /\ status' = "exit 2"
            /\ mpc' = "exited"
            /\ UNCHANGED lookupvars
       ELSE /\ mpc' = "website"
            /\ Call("website")
            /\ UNCHANGED <<printed, status>>
    /\ UNCHANGED <<environ, argv, client, website, owner, products, results, written>>

\* A test that is never true.
WebsiteUnknown_Never(w) == FALSE

\* line 368
WebsiteUnknown(w) == w = Unknown

\* exact_match that tells whether an owner was found.
FullResults_OwnerMatch(w, o, p) ==
    [company_name |-> COMPANY, website |-> w, owner |-> o,
     products_services |-> p, exact_match |-> o # Unknown]

\* lines 390-396
FullResults(w, o, p) ==
    [company_name |-> COMPANY, website |-> w, owner |-> o,
     products_services |-> p, exact_match |-> TRUE]

\* A results mapping whose unknown owner is None.
MinimalResults_NoneOwner ==
    [company_name |-> COMPANY, website |-> Unknown, owner |-> None,
     products_services |-> Unknown, exact_match |-> FALSE]

\* lines 373-379
MinimalResults ==
    [company_name |-> COMPANY, website |-> Unknown, owner |-> Unknown,
     products_services |-> Unknown, exact_match |-> FALSE]

\* lines 365-383: get_company_website has returned
WebsiteReturned ==
    /\ UNCHANGED <<toolvars, scriptvars, testvars>>
    /\ mpc = "website"
    /\ pc = "returned"
    /\ website' = result
    /\ IF WebsiteUnknown(result)
       THEN /\ printed' = Append(printed, "Could not find exact match for company")
            /\ results' = MinimalResults
            /\ mpc' = "display"
            /\ Return
       ELSE /\ mpc' = "owner"
            /\ Call("owner")
            /\ UNCHANGED <<printed, results>>
    /\ UNCHANGED <<environ, argv, client, owner, products, written, status>>

\* lines 383-387: get_company_owner has returned
OwnerReturned ==
    /\ UNCHANGED <<toolvars, scriptvars, testvars>>
    /\ mpc = "owner"
    /\ pc = "returned"
    /\ owner' = result
    /\ mpc' = "products"
    /\ Call("products")
    /\ UNCHANGED <<environ, argv, client, website, products, results, printed,
                   written, status>>

\* lines 387-396: get_company_products has returned
ProductsReturned ==
    /\ UNCHANGED <<toolvars, scriptvars, testvars>>
    /\ mpc = "products"
    /\ pc = "returned"
    /\ products' = result
    /\ results' = FullResults(website, owner, result)
    /\ mpc' = "display"
    /\ Return
    /\ UNCHANGED <<environ, argv, client, website, owner, printed, written, status>>

\* A main that writes the file without being asked.
Saves_Always(a) == TRUE

\* line 414
Saves(a) == ~Falsy(a.output)

\* lines 398-419: the results are displayed, and saved if --output was given
Finish ==
    /\ UNCHANGED <<toolvars, scriptvars, testvars>>
    /\ mpc = "display"
    /\ written' = IF Saves(argv) THEN JsonDump(results) ELSE written
    /\ printed' = IF Saves(argv) THEN Append(printed, "Results saved to") ELSE printed
    /\ status' = "exit 0"
    /\ mpc' = "done"
    /\ UNCHANGED <<environ, argv, client, website, owner, products, results>>
    /\ UNCHANGED lookupvars

\* The exception of line 80 leaves the lookup and main: nothing catches it,
\* and the interpreter prints the traceback and exits with status 1.
Propagate ==
    /\ UNCHANGED <<toolvars, scriptvars, testvars>>
    /\ mpc \in Lookups
    /\ pc = "raised"
    /\ printed' = Append(printed, "Traceback (most recent call last):")
    /\ status' = "exit 1"
    /\ mpc' = "aborted"
    /\ UNCHANGED <<environ, argv, client, website, owner, products, results, written>>
    /\ UNCHANGED lookupvars

MainNext ==
    \/ LoadModule
    \/ Entry
    \/ Request
    \/ RequestFails
    \/ ParseResponse
    \/ NextAttempt
    \/ WebsiteReturned
    \/ OwnerReturned
    \/ ProductsReturned
    \/ Finish
    \/ Propagate

MainSpec == MainInit /\ [][MainNext]_vars

-----------------------------------------------------------------------------
(* perplexity_server.py: search_web (lines 14-87), search_image (lines     *)
(* 89-137) and ask_factual_question (lines 139-185).                       *)

\* str.lower() of a token
Lower(tok) ==
    CASE tok = "Authentication" -> "authentication"
      [] tok = "AUTHENTICATION" -> "authentication"
      [] tok = "Rate" -> "rate"
      [] tok = "Timeout" -> "timeout"
      [] tok = "Request" -> "request"
      [] tok = "Connection" -> "connection"
      [] tok = "Error" -> "error"
      [] tok = "OK" -> "ok"
      [] tok = "I" -> "i"
      [] tok = "The" -> "the"
      [] tok = "Search query" -> "search query"
      [] tok = "Another criterion" -> "another criterion"
      [] tok = "Would you like to investigate" -> "would you like to investigate"
      [] tok = "Investigation" -> "investigation"
      [] tok = "COMPLETE" -> "complete"
      [] OTHER -> tok

\* s.lower()
LowerText(s) == [i \in 1..Len(s) |-> Lower(s[i])]

\* x in l, for a list l
InList(x, l) == \E i \in 1..Len(l) : l[i] = x

\* A search_web that sends the argument as it is.
SentModel_Unchecked(m) == m

\* lines 28-30
SentModel(m) == IF ~InList(m, valid_models) THEN "sonar-pro" ELSE m

\* enumerate(citations) without its start.
RECURSIVE Numbered_FromZero(_, _)
Numbered_FromZero(c, i) ==
    IF c = <<>> THEN <<>>
    ELSE <<ToString(i - 1), ". ", Head(c), NL>> \o Numbered_FromZero(Tail(c), i + 1)

\* lines 66-67: for i, citation in enumerate(citations, i): "{i}. {citation}\n"
RECURSIVE Numbered(_, _)
Numbered(c, i) ==
    IF c = <<>> THEN <<>>
    ELSE <<ToString(i), ". ", Head(c), NL>> \o Numbered(Tail(c), i + 1)

\* lines 65-67
Sources(c) == <<"\n\nSources:\n">> \o Numbered(c, 1)

\* line 70
Footer(m) == <<"\n\n(Results from Perplexity ", m, ")">>

\* response.choices[0] of an empty list
IndexError == <<"list index out of range">>

\* None += str
TypeError == <<"unsupported operand type(s) for +=: 'NoneType' and 'str'">>

\* The try block ends with an exception, or with a return value.
Raise(e) == [exception |-> e, value |-> None]

Value(v) == [exception |-> None, value |-> v]

\* lines 55-72, 120-132, 168-180: the try block of tool t, after the call of
\* model m did r
TryBody(t, m, r) ==
    IF r.error # None THEN Raise(r.error)
    ELSE IF r.choices = <<>> THEN Raise(IndexError)
    ELSE LET content == r.choices[1]
             cited == ~Falsy(r.citations)
         IN  IF cited /\ content = None THEN Raise(TypeError)
             ELSE LET text == IF cited THEN content \o Sources(r.citations)
                              ELSE content
                  IN  IF t # "search_web" THEN Value(text)
                      ELSE IF text = None THEN Raise(TypeError)
                      ELSE Value(text \o Footer(m))

\* A handler for the errors of the service only.
Catches_ServiceErrorsOnly(e) == e \notin {IndexError, TypeError}

\* lines 74, 134, 182: except Exception
Catches(e) == TRUE

\* lines 75-87, 135-137, 183-185
ErrorString(t, error_message) ==
    IF t = "search_web"
    THEN IF Contains(LowerText(error_message), <<"authentication">>)
         THEN <<"Error", ": Authentication failed. Please check the API key.">>
         ELSE IF Contains(LowerText(error_message), <<"rate", SP, "limit">>)
         THEN <<"Error", ": Rate limit exceeded. Please try again later.">>
         ELSE IF Contains(LowerText(error_message), <<"timeout">>)
         THEN <<"Error", ": The request timed out. Please try again.">>
         ELSE <<"Error", " searching with Perplexity: ">> \o error_message
    ELSE IF t = "search_image"
    THEN <<"Error", " searching for image information: ">> \o error_message
    ELSE <<"Error", " answering factual question: ">> \o error_message

\* Nothing of company_info.py runs.
LookupIdle ==
    /\ lookup = None
    /\ pc = "idle"
    /\ attempt = 0
    /\ response = None
    /\ parsed = NoSections
    /\ determinations = <<>>
    /\ result = None
    /\ website = None
    /\ MainIdle

\* A tool is called with its arguments.
ToolInit ==
    /\ tool \in Tools
    /\ model_arg \in IF tool = "search_web" THEN ModelArgs ELSE {"sonar-pro"}
    /\ model = model_arg
    /\ tpc = "called"
    /\ reply = NoReply
    /\ returned = None
    /\ requests = <<>>
    /\ LookupIdle
    /\ ScriptIdle
    /\ TestIdle

\* lines 28-58, 120-123, 168-171: the request is sent with the model, and the
\* service answers or the call raises
ToolRequest ==
    /\ tpc = "called"
    /\ model' = IF tool = "search_web" THEN SentModel(model_arg) ELSE "sonar-pro"
    /\ requests' = Append(requests, [tool |-> tool, model |-> model'])
    /\ reply' \in ToolReplies
    /\ tpc' = "replied"
    /\ UNCHANGED <<tool, model_arg, returned>>
    /\ UNCHANGED <<lookup, pc, attempt, response, parsed, determinations, result>>
    /\ UNCHANGED <<mainvars, scriptvars, testvars>>

\* lines 61-87, 125-137, 173-185: the rest of the try block, and the handler
ToolReturn ==
    /\ tpc = "replied"
    /\ LET body == TryBody(tool, model, reply)
       IN  IF body.exception = None
           THEN /\ returned' = body.value
                /\ tpc' = "returned"
           ELSE IF Catches(body.exception)
           THEN /\ returned' = ErrorString(tool, body.exception)
                /\ tpc' = "returned"
           ELSE /\ tpc' = "raised"
                /\ UNCHANGED returned
    /\ UNCHANGED <<tool, model_arg, model, reply>>
    /\ UNCHANGED <<lookupvars, mainvars, scriptvars, testvars>>

ToolNext ==
    \/ ToolRequest
    \/ ToolReturn

ToolSpec == ToolInit /\ [][ToolNext]_vars

-----------------------------------------------------------------------------
(* smartbroker_script.py: send_anthropic_message (lines 67-90),            *)
(* search_perplexity (lines 92-113) and investigate_company (138-240).     *)

\* the name `response` is read before anything was assigned to it
UnboundLocalError ==
    <<"cannot access local variable 'response' where it is not associated with a value">>

\* lines 83 and 105: response is assigned only when requests.post returns
ResponseBound(o) == o.kind # "connection"

\* lines 82-90 and 104-113: the value returned after the post did o, or the
\* exception that leaves the function.  The handler reads `response` at line
\* 88 (111) whatever failed.
AfterPost(o, error_string) ==
    IF o.kind = "ok" THEN Value(o.text)
    ELSE IF ResponseBound(o) THEN Value(error_string)
    ELSE Raise(UnboundLocalError)

\* lines 67-90
send_anthropic_message(o) == AfterPost(o, ANTHROPIC_ERROR)

\* lines 92-113
search_perplexity(o) == AfterPost(o, PERPLEXITY_ERROR)

\* s.find(pat, start), 1-based; 0 when there is none
FindFrom(s, pat, start) ==
    LET at == {i \in start..Len(s) : i >= 1 /\ StartsAt(s, pat, i)}
    IN  IF at = {} THEN 0 ELSE CHOOSE i \in at : \A j \in at : i <= j

\* line 184
SuggestsSearch(text) ==
    \/ Contains(LowerText(text), <<"search query", ":">>)
    \/ Contains(LowerText(text), <<"suggest searching for", ":">>)

\* lines 186-195: the text after the colon of the cue, up to the end of the
\* line, stripped
ProposedQuery(text) ==
    LET first == FindFrom(LowerText(text), <<"search query", ":">>, 1)
        cue == IF first = 0
               THEN FindFrom(LowerText(text), <<"suggest searching for", ":">>, 1)
               ELSE first
        query_start == FindFrom(text, <<":">>, cue) + 1
        newline == FindFrom(text, <<NL>>, query_start)
        query_end == IF newline = 0 THEN Len(text) ELSE newline - 1
    IN  Strip(SubSeq(text, query_start, query_end))

\* line 229
AsksCriterion(text) ==
    \/ Contains(LowerText(text), <<"another criterion">>)
    \/ Contains(LowerText(text), <<"next criterion">>)
    \/ Contains(LowerText(text), <<"would you like to investigate">>)

\* A test that does not fold the case.
SaysComplete_CaseSensitive(text) ==
    \/ Contains(text, <<"investigation", SP, "complete">>)
    \/ Contains(text, <<"investigation", SP, "is", SP, "complete">>)

\* line 239
SaysComplete(text) ==
    \/ Contains(LowerText(text), <<"investigation", SP, "complete">>)
    \/ Contains(LowerText(text), <<"investigation", SP, "is", SP, "complete">>)

\* A loop that looks at the analysis when there is one.
Inspected_AnalysisToo(cr, an) == IF an # None /\ SaysComplete(an) THEN an ELSE cr

\* line 239: the text that is inspected for the end of the investigation
Inspected(cr, an) == cr

\* The search results that are added as the assistant's words.
SearchResultsMessage_Assistant == [role |-> "assistant", content |-> "search_results"]

\* line 218: the message that holds search_results, the results or the error
\* string of search_perplexity
SearchResultsMessage == [role |-> "user", content |-> "search_results"]

\* lines 83 and 105: one requests.post
Post(url, query) ==
    requests' = Append(requests, [url |-> url, messages |-> messages, query |-> query])

\* investigate_company is called: lines 167-172
ScriptInit ==
    /\ messages = <<[role |-> "assistant", content |-> "greeting"]>>
    /\ spc = "input"
    /\ claude_response = None
    /\ analysis = None
    /\ investigation_complete = FALSE
    /\ iterations = 0
    /\ requests = <<>>
    /\ LookupIdle
    /\ ToolIdle
    /\ TestIdle

\* lines 173-176: the loop is entered and the user's input is appended.  The
\* locals of the iteration that ended are dead here: every one is assigned
\* again before it is read, and the model clears them.
UserInput ==
    /\ spc = "input"
    /\ iterations < MaxIterations
    /\ messages' = Append(messages, [role |-> "user", content |-> "user_input"])
    /\ spc' = "ask"
    /\ claude_response' = None
    /\ analysis' = None
    /\ UNCHANGED <<investigation_complete, iterations, requests>>
    /\ UNCHANGED <<lookup, pc, attempt, response, parsed, determinations, result>>
    /\ UNCHANGED <<mainvars, toolvars, testvars>>

\* lines 179-181
AskClaude ==
    /\ spc = "ask"
    /\ Post("anthropic", <<>>)
    /\ \E o \in PostOutcomes(Replies) :
        LET r == send_anthropic_message(o)
        IN  IF r.exception # None
            THEN /\ spc' = "raised"
                 /\ UNCHANGED <<messages, claude_response>>
            ELSE /\ claude_response' = r.value
                 /\ messages' = Append(messages, [role |-> "assistant",
                                                  content |-> "claude_response"])
                 /\ spc' = "search"
    /\ UNCHANGED <<analysis, investigation_complete, iterations>>
    /\ UNCHANGED <<lookup, pc, attempt, response, parsed, determinations, result>>
    /\ UNCHANGED <<mainvars, toolvars, testvars>>

\* lines 184-218: the query is taken from the reply, the user approves or
\* replaces it, the search runs and its results are appended
SearchWeb ==
    /\ spc = "search"
    /\ IF SuggestsSearch(claude_response)
       THEN \E modified_query \in ModifiedQueries, o \in PostOutcomes(SearchTexts) :
              LET search_query == IF modified_query # <<>> THEN modified_query
                                  ELSE ProposedQuery(claude_response)
                  r == search_perplexity(o)
              IN  /\ Post("perplexity", search_query)
                  /\ IF r.exception # None
                     THEN /\ spc' = "raised"
                          /\ UNCHANGED messages
                     ELSE /\ messages' = Append(messages, SearchResultsMessage)
                          /\ spc' = "analyse"
       ELSE /\ spc' = "criterion"
            /\ UNCHANGED <<messages, requests>>
    /\ UNCHANGED <<claude_response, analysis, investigation_complete, iterations>>
    /\ UNCHANGED <<lookup, pc, attempt, response, parsed, determinations, result>>
    /\ UNCHANGED <<mainvars, toolvars, testvars>>

\* lines 221-226
AnalyseResults ==
    /\ spc = "analyse"
    /\ Post("anthropic", <<>>)
    /\ \E o \in PostOutcomes(Analyses) :
        LET r == send_anthropic_message(o)
        IN  IF r.exception # None
            THEN /\ spc' = "raised"
                 /\ UNCHANGED <<messages, analysis>>
            ELSE /\ analysis' = r.value
                 /\ messages' = Append(messages, [role |-> "assistant",
                                                  content |-> "analysis"])
                 /\ spc' = "criterion"
    /\ UNCHANGED <<claude_response, investigation_complete, iterations>>
    /\ UNCHANGED <<lookup, pc, attempt, response, parsed, determinations, result>>
    /\ UNCHANGED <<mainvars, toolvars, testvars>>

\* lines 229-231
ChooseCriterion ==
    /\ spc = "criterion"
    /\ IF AsksCriterion(claude_response)
       THEN /\ messages' = Append(messages, [role |-> "user", content |-> "criterion"])
            /\ spc' = "reask"
       ELSE /\ spc' = "complete"
            /\ UNCHANGED messages
    /\ UNCHANGED <<claude_response, analysis, investigation_complete, iterations,
                   requests>>
    /\ UNCHANGED <<lookup, pc, attempt, response, parsed, determinations, result>>
    /\ UNCHANGED <<mainvars, toolvars, testvars>>

\* lines 234-236
AskCriterion ==
    /\ spc = "reask"
    /\ Post("anthropic", <<>>)
    /\ \E o \in PostOutcomes(Replies) :
        LET r == send_anthropic_message(o)
        IN  IF r.exception # None
            THEN /\ spc' = "raised"
                 /\ UNCHANGED <<messages, claude_response>>
            ELSE /\ claude_response' = r.value
                 /\ messages' = Append(messages, [role |-> "assistant",
                                                  content |-> "claude_response"])
                 /\ spc' = "complete"
    /\ UNCHANGED <<analysis, investigation_complete, iterations>>
    /\ UNCHANGED <<lookup, pc, attempt, response, parsed, determinations, result>>
    /\ UNCHANGED <<mainvars, toolvars, testvars>>

\* lines 239-240 and the test of line 173
CheckComplete ==
    /\ spc = "complete"
    /\ investigation_complete' = SaysComplete(Inspected(claude_response, analysis))
    /\ spc' = IF investigation_complete' THEN "done" ELSE "input"
    /\ iterations' = iterations + 1
    /\ UNCHANGED <<messages, claude_response, analysis, requests>>
    /\ UNCHANGED <<lookup, pc, attempt, response, parsed, determinations, result>>
    /\ UNCHANGED <<mainvars, toolvars, testvars>>

ScriptNext ==
    \/ UserInput
    \/ AskClaude
    \/ SearchWeb
    \/ AnalyseResults
    \/ ChooseCriterion
    \/ AskCriterion
    \/ CheckComplete

ScriptSpec == ScriptInit /\ [][ScriptNext]_vars

-----------------------------------------------------------------------------
(* api_test.py: one completion without streaming, one with, in one try.    *)

\* What a call and the reading of its result do: the call raises, the result
\* cannot be read (no choice, no content, a broken stream), or all goes well.
TestOutcomes == {"raises", "unreadable", "ok"}

\* lines 58-62: the handler of the whole script
ErrorFiles == {"perplexity_error.txt"}

ApiTestInit ==
    /\ apc = "first"
    /\ files = {}
    /\ requests = <<>>
    /\ LookupIdle
    /\ ToolIdle
    /\ ScriptIdle

\* lines 24-36, and 58-62 when something raises
NonStreaming ==
    /\ apc = "first"
    /\ requests' = Append(requests, [model |-> "sonar-pro", stream |-> FALSE])
    /\ \E o \in TestOutcomes :
        /\ files' = files
                    \cup (IF o = "raises" THEN {} ELSE {"perplexity_response.txt"})
                    \cup (IF o = "ok" THEN {} ELSE ErrorFiles)
        /\ apc' = IF o = "ok" THEN "second" ELSE "failed"
    /\ UNCHANGED <<lookup, pc, attempt, response, parsed, determinations, result>>
    /\ UNCHANGED <<mainvars, toolvars, scriptvars>>

\* lines 38-56, and 58-62 when something raises
Streaming ==
    /\ apc = "second"
    /\ requests' = Append(requests, [model |-> "sonar-pro", stream |-> TRUE])
    /\ \E o \in TestOutcomes :
        /\ files' = files \cup {"perplexity_streaming.txt"}
                    \cup (IF o = "ok" THEN {} ELSE ErrorFiles)
        /\ apc' = IF o = "ok" THEN "done" ELSE "failed"
    /\ UNCHANGED <<lookup, pc, attempt, response, parsed, determinations, result>>
    /\ UNCHANGED <<mainvars, toolvars, scriptvars>>

ApiTestNext ==
    \/ NonStreaming
    \/ Streaming

-----------------------------------------------------------------------------
(* Every program of the repository: a lookup called on its own,            *)
(* company_info.py as a script, a tool of perplexity_server.py,            *)
(* investigate_company of smartbroker_script.py, and api_test.py.          *)

AllInit ==
    \/ Init
    \/ MainInit
    \/ ToolInit
    \/ ScriptInit
    \/ ApiTestInit

AllNext ==
    \/ Next
    \/ MainNext
    \/ ToolNext
    \/ ScriptNext
    \/ ApiTestNext

AllSpec == AllInit /\ [][AllNext]_vars

-----------------------------------------------------------------------------
(* Text operations for stating the properties, defined by position and     *)
(* independently of the operators above.                                   *)

RECURSIVE DropLeading(_)
DropLeading(s) ==
    IF s # <<>> /\ Head(s) \in Whitespace THEN DropLeading(Tail(s)) ELSE s

RECURSIVE DropTrailing(_)
DropTrailing(s) ==
    IF s # <<>> /\ s[Len(s)] \in Whitespace
    THEN DropTrailing(SubSeq(s, 1, Len(s) - 1))
    ELSE s

Trimmed(s) == DropTrailing(DropLeading(s))

Ambiguous(k) == [i \in 1..k |-> NOT_EXACT_MATCH]

HasMarker(s, m) == \E i \in 1..Len(s) : s[i] = m

FirstPos(s, m) == CHOOSE i \in 1..Len(s) : s[i] = m /\ \A j \in 1..(i - 1) : s[j] # m

\* the text after the (first) analysis marker
AfterAnalysisMarker(s) == SubSeq(s, FirstPos(s, ANALYSIS_MARKER) + 1, Len(s))

BlankLineAt(t, i) == i + 1 <= Len(t) /\ t[i] = NL /\ t[i + 1] = NL

HasBlankLine(t) == \E i \in 1..Len(t) : BlankLineAt(t, i)

FirstBlankLine(t) ==
    CHOOSE i \in 1..Len(t) : BlankLineAt(t, i) /\ \A j \in 1..(i - 1) : ~BlankLineAt(t, j)

BeforeBlankLine(t) == SubSeq(t, 1, FirstBlankLine(t) - 1)

AfterBlankLine(t) == SubSeq(t, FirstBlankLine(t) + 2, Len(t))

\* the text after the raw-results marker and before the analysis marker that
\* follows it
BetweenMarkers(s) ==
    LET r == FirstPos(s, RAW_MARKER)
        later == {a \in (r + 1)..Len(s) : s[a] = ANALYSIS_MARKER}
    IN  IF later = {} THEN <<>>
        ELSE SubSeq(s, r + 1, (CHOOSE a \in later : \A b \in later : a <= b) - 1)

BothMarkers(s) == HasMarker(s, RAW_MARKER) /\ HasMarker(s, ANALYSIS_MARKER)

\* the response of this attempt has been parsed
Parsed == parsed # NoSections

-----------------------------------------------------------------------------
\* C1: a lookup never returns "NOT_EXACT_MATCH", and when all max_attempts
\* determinations were "NOT_EXACT_MATCH" it returns exactly "Unknown".
C1_NeverReturnsAmbiguous ==
    /\ result # NOT_EXACT_MATCH
    /\ pc = "returned" => result # None
    /\ (pc = "returned" /\ determinations = Ambiguous(3)) => result = Unknown

C1_Witness ==
    /\ pc = "returned"
    /\ determinations = Ambiguous(3)
    /\ result = Unknown

\* C2: the first determination that differs from "NOT_EXACT_MATCH" is the
\* value returned, also on the last attempt, and no request follows the
\* response that gave it.
C2_FirstNonAmbiguousReturned ==
    \A k \in 1..Len(determinations) :
        determinations[k] # NOT_EXACT_MATCH =>
            /\ \A j \in 1..(k - 1) : determinations[j] = NOT_EXACT_MATCH
            /\ k = Len(determinations)
            /\ Len(requests) = k
            /\ pc = "returned"
            /\ result = determinations[k]

C2_Witness ==
    /\ pc = "returned"
    /\ Len(determinations) = 3
    /\ determinations[3] \notin {NOT_EXACT_MATCH, Unknown}
    /\ result = determinations[3]
    /\ Len(requests) = 3

\* The requests sent so far: request k carries attempt index k-1, the first is
\* the bare user message, every later one is the user message with a
\* clarification appended and follows an ambiguous determination.
C3_Requests ==
    /\ Len(requests) <= Len(determinations) + 1
    /\ \A k \in 1..Len(requests) :
        LET um == UserMessage(lookup)
            c  == requests[k].content
        IN  /\ requests[k].attempt = k - 1
            /\ k = 1 => c = um
            /\ k > 1 => /\ Len(c) > Len(um)
                        /\ SubSeq(c, 1, Len(um)) = um
                        /\ k - 1 <= Len(determinations)
                        /\ determinations[k - 1] = NOT_EXACT_MATCH

\* The steps that touch the requests: an ambiguous determination at an index
\* below max_attempts-1 leads to the next index, a request is sent from the
\* top of the loop only, and one at a time.
C3_Step ==
    /\ (pc = "ambiguous" /\ attempt < max_attempts - 1) =>
            (pc' = "initial" /\ attempt' = attempt + 1 /\ requests' = requests)
    /\ pc = "initial" =>
            /\ Len(requests') = Len(requests) + 1
            /\ requests'[Len(requests')].attempt = attempt
            /\ attempt' = attempt
    /\ requests' # requests =>
            (pc = "initial" /\ SubSeq(requests', 1, Len(requests)) = requests)

\* C3: request k carries attempt index k-1; the first request is the bare user
\* message and every later one is the user message with a clarification
\* appended; a request after the first is sent only after an ambiguous
\* determination, and an ambiguous determination at index i < max_attempts-1
\* is followed by exactly one request, with index i+1.
C3_RetryOnAmbiguousOnly == []C3_Requests /\ [][C3_Step]_vars

C3_Witness ==
    /\ Len(requests) = 3
    /\ determinations = Ambiguous(2)
    /\ requests[3].attempt = 2
    /\ requests[3].content # requests[1].content
    /\ requests[2].content # requests[1].content

\* C4 as stated: with both markers and a blank line after the analysis
\* marker, the determination is the trimmed text after the first blank line
\* and the analysis is the trimmed text between the marker and that line.
C4_AnswerAfterBlankLine ==
    (Parsed /\ BothMarkers(response) /\ HasBlankLine(AfterAnalysisMarker(response))) =>
        /\ parsed.determination = Trimmed(AfterBlankLine(AfterAnalysisMarker(response)))
        /\ parsed.claude_analysis = Trimmed(BeforeBlankLine(AfterAnalysisMarker(response)))

\* C4 as amended: the same, except that when nothing but whitespace follows
\* the first blank line the determination is "Unknown"; the response
\* "RAW_SEARCH_RESULTS:\nfoo\nCLAUDE_ANALYSIS:\nbar\n\nacme.com" gives
\* determination "acme.com", raw results "foo" and analysis "bar".
C4_AnswerAfterBlankLineUnlessEmpty ==
    /\ (Parsed /\ BothMarkers(response) /\ HasBlankLine(AfterAnalysisMarker(response))) =>
        LET after == Trimmed(AfterBlankLine(AfterAnalysisMarker(response)))
        IN  /\ parsed.determination = IF after = <<>> THEN Unknown ELSE after
            /\ parsed.claude_analysis =
                   Trimmed(BeforeBlankLine(AfterAnalysisMarker(response)))
    /\ (Parsed /\ response = WellFormedResponse) =>
        /\ parsed.determination = <<"acme.com">>
        /\ parsed.raw_results = <<"foo">>
        /\ parsed.claude_analysis = <<"bar">>

C4_Witness ==
    /\ Parsed
    /\ response = WellFormedResponse
    /\ result = <<"acme.com">>

\* C5: a response that lacks a marker is its own determination, trimmed, and
\* has empty raw-results and analysis sections.
C5_NoMarkersEchoesResponse ==
    (Parsed /\ ~BothMarkers(response)) =>
        /\ parsed.determination = Trimmed(response)
        /\ parsed.raw_results = <<>>
        /\ parsed.claude_analysis = <<>>

C5_Witness ==
    /\ Parsed
    /\ HasMarker(response, ANALYSIS_MARKER)
    /\ ~HasMarker(response, RAW_MARKER)
    /\ Trimmed(response) # response
    /\ result = Trimmed(response)

\* C6: with both markers and no blank line after the analysis marker, the
\* analysis is the trimmed text after the marker, the determination is
\* "Unknown", and the lookup returns "Unknown" with no further request.
C6_NoBlankLineIsUnknown ==
    (Parsed /\ BothMarkers(response) /\ ~HasBlankLine(AfterAnalysisMarker(response))) =>
        /\ parsed.claude_analysis = Trimmed(AfterAnalysisMarker(response))
        /\ parsed.determination = Unknown
        /\ pc = "returned"
        /\ result = Unknown
        /\ Len(requests) = attempt + 1

C6_Witness ==
    /\ Parsed
    /\ BothMarkers(response)
    /\ ~HasBlankLine(AfterAnalysisMarker(response))
    /\ parsed.claude_analysis # <<>>
    /\ "Unknown" \notin {response[i] : i \in 1..Len(response)}
    /\ result = Unknown

\* C7: with both markers, the raw-results section is the trimmed text after
\* the raw-results marker and before the analysis marker, and holds nothing
\* that precedes the raw-results marker.
C7_RawResultsBetweenMarkers ==
    (Parsed /\ BothMarkers(response)) =>
        parsed.raw_results = Trimmed(BetweenMarkers(response))

\* C8: the parse step never raises, and the determination is "Unknown", the
\* trimmed response, or the trimmed text after the first blank line.
C8_ParseNeverRaises ==
    /\ pc = "raised" => ~Parsed
    /\ Parsed =>
        /\ ~parsed.raised
        /\ \/ parsed.determination = Unknown
           \/ parsed.determination = Trimmed(response)
           \/ /\ BothMarkers(response)
              /\ HasBlankLine(AfterAnalysisMarker(response))
              /\ parsed.determination =
                     Trimmed(AfterBlankLine(AfterAnalysisMarker(response)))

C8_Witness ==
    /\ Parsed
    /\ BothMarkers(response)
    /\ FirstPos(response, ANALYSIS_MARKER) < FirstPos(response, RAW_MARKER)
    /\ ~HasBlankLine(AfterAnalysisMarker(response))
    /\ ~parsed.raised
    /\ pc = "returned"

\* C9: the attempt index stays in 0..2 and a query issues at most 3
\* requests, whatever the responses.
C9_AttemptsBounded ==
    /\ attempt \in 0..2
    /\ Len(requests) <= 3
    /\ Len(requests) \in {attempt, attempt + 1}

C9_Witness ==
    /\ attempt = 2
    /\ Len(requests) = 3
    /\ pc = "ambiguous"

\* The state of a query in the terms of the state machine.
QueryState ==
    CASE pc = "initial" -> "INITIAL"
      [] pc = "response_received" -> "RESPONSE_RECEIVED"
      [] pc = "ambiguous" -> "AMBIGUOUS"
      [] pc = "returned" /\ result = Unknown -> "UNKNOWN"
      [] pc = "returned" /\ result # Unknown -> "CONCRETE_VALUE"
      [] pc = "raised" -> "REQUEST_FAILED"

Terminal == {"CONCRETE_VALUE", "UNKNOWN"}

C10_Step ==
    CASE QueryState = "INITIAL" ->
            QueryState' \in {"RESPONSE_RECEIVED", "REQUEST_FAILED"}
      [] QueryState = "RESPONSE_RECEIVED" ->
            QueryState' \in {"CONCRETE_VALUE", "UNKNOWN", "AMBIGUOUS"}
      [] QueryState = "AMBIGUOUS" ->
            IF attempt < max_attempts - 1
            THEN QueryState' = "INITIAL" /\ attempt' = attempt + 1
            ELSE QueryState' = "UNKNOWN"
      [] OTHER -> FALSE

\* C10: a query moves INITIAL -> RESPONSE_RECEIVED -> {CONCRETE_VALUE, UNKNOWN,
\* AMBIGUOUS}, AMBIGUOUS goes back to INITIAL while attempts remain and to
\* UNKNOWN otherwise, CONCRETE_VALUE and UNKNOWN are left by no step, and a
\* query whose requests all return a response ends in one of the two.
C10_StateMachine ==
    /\ [][C10_Step]_vars
    /\ [](QueryState # "REQUEST_FAILED") => <>[](QueryState \in Terminal)

C10_Witness ==
    /\ QueryState = "CONCRETE_VALUE"
    /\ Len(determinations) = 2
    /\ attempt = 1

-----------------------------------------------------------------------------
(* company_info.py as a script. *)

\* C11 as stated: a failure of the remote call of a lookup is caught in the
\* lookup: the lookup never ends by raising and main is never aborted.
C11_FailureCaught ==
    /\ pc # "raised"
    /\ mpc # "aborted"

\* The key is absent: the variable is unset or empty.
KeyAbsent == environ = None \/ environ = <<>>

\* C15: without the API key the script prints the error and the remedy and
\* exits with status 1, and has made no client, parsed no argument, sent no
\* request and written no file.
C15_MissingKeyExits ==
    KeyAbsent =>
        /\ mpc \in {"module", "exited"}
        /\ client = None
        /\ lookup = None
        /\ requests = <<>>
        /\ written = NoFile
        /\ results = NoResults
        /\ mpc = "module" => (printed = <<>> /\ status = "running")
        /\ mpc = "exited" =>
            /\ status = "exit 1"
            /\ Len(printed) = 2
            /\ printed[1] = "Error: ANTHROPIC_API_KEY not found in environment variables."
            /\ printed[2] =
                 "Please create a .env file with your API key or set it in your environment."

C15_Witness ==
    /\ environ = None
    /\ argv.company_name
    /\ argv.output # None
    /\ mpc = "exited"
    /\ status = "exit 1"

\* The keys of the file that was written.
Keys == DOMAIN written

\* C16 as stated: every key and every value of the record written with
\* --output is a string.
C16_AllStrings ==
    written # NoFile =>
        \A k \in Keys : k \in STRING /\ written[k].type = "string"

\* C16 as amended: the record is written only with --output, every key is a
\* string, and every value is a string except that of exact_match, which is
\* a boolean.
C16_StringsAndOneBoolean ==
    written # NoFile =>
        /\ argv.output # None
        /\ Keys = {"company_name", "website", "owner", "products_services", "exact_match"}
        /\ \A k \in Keys :
              /\ k \in STRING
              /\ written[k].type = IF k = "exact_match" THEN "boolean" ELSE "string"

C16_Witness ==
    /\ written # NoFile
    /\ written["exact_match"].value = <<"false">>
    /\ written["owner"] = [type |-> "string", value |-> Unknown]

\* the rank of a lookup in main
Rank(fn) == CASE fn = "website" -> 1 [] fn = "owner" -> 2 [] fn = "products" -> 3

\* the requests of the lookup fn
RequestsOf(fn) == {i \in 1..Len(requests) : requests[i].system = fn}

\* the website has been found or given up
WebsiteKnown == website # None

\* The requests and the results of main in a state: the requests come in the order website, owner, products; an owner
\* or products request is sent only after the website lookup returned a value
\* other than "Unknown" and carries that value, which is the one stored in
\* the results; with the website "Unknown" only website requests were sent
\* and the results hold "Unknown" three times; exact_match is true exactly
\* when the stored website is not "Unknown"; and with a website found both
\* lookups have run when the results are made.
C17_State ==
    /\ \A i, j \in 1..Len(requests) :
          i < j => Rank(requests[i].system) <= Rank(requests[j].system)
    /\ \A i \in 1..Len(requests) :
          requests[i].system # "website" =>
              /\ WebsiteKnown
              /\ website # Unknown
              /\ Len(requests[i].content) >= 1 + Len(website)
              /\ SubSeq(requests[i].content, 2, 1 + Len(website)) = website
    /\ (WebsiteKnown /\ website = Unknown) =>
          /\ RequestsOf("owner") = {}
          /\ RequestsOf("products") = {}
          /\ mpc \in {"display", "done"}
          /\ results = [company_name |-> COMPANY, website |-> Unknown,
                        owner |-> Unknown, products_services |-> Unknown,
                        exact_match |-> FALSE]
    /\ results # NoResults =>
          /\ results.website = website
          /\ results.exact_match <=> results.website # Unknown
          /\ results.exact_match =>
                /\ RequestsOf("owner") # {}
                /\ RequestsOf("products") # {}
                /\ results.owner = owner
                /\ results.products_services = products

\* Once the website is "Unknown" no request is sent.
C17_Step == (WebsiteKnown /\ website = Unknown) => requests' = requests

\* C17: main runs the owner and the products lookup only when the website
\* lookup returned a value other than "Unknown", in the order website,
\* owner, products and with that website in their requests; with the website
\* "Unknown" no further request is sent and the results hold "Unknown" for
\* website, owner and products; exact_match is true exactly when the stored
\* website is not "Unknown".
C17_WebsiteGatesLookups == []C17_State /\ [][C17_Step]_vars

C17_Witness ==
    /\ mpc = "done"
    /\ results.exact_match
    /\ results.website = <<"acme.com">>
    /\ results.owner = Unknown
    /\ Len(requests) = 7
    /\ requests[4].system = "owner"
    /\ requests[5].system = "products"

-----------------------------------------------------------------------------
(* The tools of perplexity_server.py. *)

\* The call failed: the service raised, or the response holds no choice to
\* read the completion from.
CallFailed == reply.error # None \/ reply.choices = <<>>

\* The completion text of a response that has one.
Completion == reply.choices[1]

\* The call succeeded: the response holds a completion text.
CallSucceeded == reply.error = None /\ reply.choices # <<>> /\ Completion # None

\* t is a part of the text s
PartOf(t, s) == \E i \in 0..(Len(s) - Len(t)) : SubSeq(s, i + 1, i + Len(t)) = t

\* C13: a tool never raises; when the call or the reading of its result
\* failed it returns a string that begins with "Error", and when the call
\* succeeded it returns a string that contains the completion text.
C13_ToolsNeverRaise ==
    /\ tpc # "raised"
    /\ tpc = "returned" =>
        /\ CallFailed => (returned # None /\ returned # <<>> /\ Head(returned) = "Error")
        /\ CallSucceeded => (returned # None /\ PartOf(Completion, returned))

C13_Witness ==
    /\ tpc = "returned"
    /\ tool = "search_image"
    /\ reply.error = None
    /\ reply.choices = <<>>
    /\ Head(returned) = "Error"

\* the models of the valid list
ValidModels == {"sonar-pro", "sonar-small", "sonar-medium", "codellama-70b", "mistral-7b"}

\* the i-th line of the source list that starts after position p of s
SourceLine(s, p, i) == SubSeq(s, p + 4 * (i - 1) + 1, p + 4 * i)

\* C20: search_web sends a model of the valid list, the argument itself when
\* it is valid and "sonar-pro" otherwise; on success the returned text is the
\* completion, then, with citations, the "Sources" header and the citations
\* in their order, numbered from 1, then the footer that names the model
\* sent.
C20_ValidModelAndFooter ==
    tool = "search_web" =>
        /\ \A k \in 1..Len(requests) :
              /\ requests[k].model \in ValidModels
              /\ requests[k].model =
                     IF model_arg \in ValidModels THEN model_arg ELSE "sonar-pro"
        /\ (tpc = "returned" /\ CallSucceeded) =>
              LET n == IF reply.citations = None THEN 0 ELSE Len(reply.citations)
                  c == Len(Completion)
                  body == IF n = 0 THEN c ELSE c + 1 + 4 * n
              IN  /\ Len(returned) = body + 3
                  /\ SubSeq(returned, 1, c) = Completion
                  /\ n > 0 => returned[c + 1] = "\n\nSources:\n"
                  /\ \A i \in 1..n :
                        SourceLine(returned, c + 1, i) =
                            <<ToString(i), ". ", reply.citations[i], "\n">>
                  /\ SubSeq(returned, body + 1, body + 3) =
                        <<"\n\n(Results from Perplexity ", requests[1].model, ")">>

C20_Witness ==
    /\ tool = "search_web"
    /\ model_arg = "gpt-4"
    /\ tpc = "returned"
    /\ CallSucceeded
    /\ reply.citations = <<"b.org", "a.com">>
    /\ returned[Len(returned) - 1] = "sonar-pro"

-----------------------------------------------------------------------------
(* investigate_company of smartbroker_script.py. *)

\* C12 as stated: send_anthropic_message and search_perplexity never raise,
\* whatever fails in the remote call: no exception leaves them and ends the
\* conversation loop.
C12_SendNeverRaises == spc # "raised"

\* the role of the last message
LastRole(m) == m[Len(m)].role

\* C18: the conversation starts with an assistant message, no two messages
\* in a row have the same role, and the last message is a user message
\* whenever send_anthropic_message is called.
C18_RolesAlternate ==
    spc # "idle" =>
        /\ messages[1].role = "assistant"
        /\ \A i \in 1..(Len(messages) - 1) : messages[i].role # messages[i + 1].role
        /\ spc \in {"ask", "analyse", "reask"} => LastRole(messages) = "user"
        /\ \A k \in 1..Len(requests) :
              requests[k].url = "anthropic" => LastRole(requests[k].messages) = "user"

C18_Witness ==
    /\ iterations = 2
    /\ Len(messages) = 13
    /\ messages[4].content = "search_results"
    /\ messages[12].content = "criterion"

\* a token without its case
Fold(tok) ==
    IF tok \in {"Investigation", "INVESTIGATION"} THEN "investigation"
    ELSE IF tok \in {"COMPLETE", "Complete"} THEN "complete"
    ELSE IF tok \in {"IS", "Is"} THEN "is"
    ELSE tok

\* the token at position i of t without its case, "" past the end
At(t, i) == IF i \in 1..Len(t) THEN Fold(t[i]) ELSE ""

\* t holds "investigation complete" or "investigation is complete", in any case
MentionsCompletion(t) ==
    \E i \in 1..Len(t) :
        /\ At(t, i) = "investigation"
        /\ At(t, i + 1) = " "
        /\ \/ At(t, i + 2) = "complete"
           \/ At(t, i + 2) = "is" /\ At(t, i + 3) = " " /\ At(t, i + 4) = "complete"

\* The loop ends at the end of an iteration only, and there exactly when
\* claude_response mentions the completion; the error string of
\* send_anthropic_message does not end it.
C19_Step ==
    /\ spc' = "done" => spc \in {"complete", "done"}
    /\ spc = "complete" =>
        /\ spc' \in {"done", "input"}
        /\ spc' = "done" <=> MentionsCompletion(claude_response)
        /\ investigation_complete' <=> MentionsCompletion(claude_response)
        /\ claude_response = <<"Error", ": Could not get a response from Claude.">> =>
              spc' = "input"

\* C19: the loop of investigate_company ends at the end of an iteration if
\* and only if claude_response then contains "investigation complete" or
\* "investigation is complete" in any case; the analysis of the search
\* results is not inspected, and the error string of send_anthropic_message
\* never ends the loop.
C19_EndsOnCompletionOnly == [][C19_Step]_vars

C19_Witness ==
    /\ spc = "input"
    /\ iterations = 1
    /\ analysis # None
    /\ MentionsCompletion(analysis)
    /\ ~MentionsCompletion(claude_response)
    /\ messages[Len(messages)].content = "claude_response"

-----------------------------------------------------------------------------
(* All the programs. *)

\* the program that runs
Program ==
    IF tool # "none" THEN "tool"
    ELSE IF spc # "idle" THEN "script"
    ELSE IF apc # "idle" THEN "api_test"
    ELSE "lookups"

\* The requests sent so far hold no request twice: a lookup sent each
\* attempt index once, a tool sent one request, and the script sent no two
\* requests for the same call (the same service at the same point of the
\* conversation), and api_test.py sent its plain and its streaming request
\* once each.
C14_State ==
    /\ Program = "lookups" =>
          \A i, j \in 1..Len(requests) :
              (i < j /\ requests[i].system = requests[j].system) =>
                  requests[i].attempt < requests[j].attempt
    /\ Program = "tool" => Len(requests) <= 1
    /\ Program = "script" =>
          \A i, j \in 1..Len(requests) :
              (i < j /\ requests[i].url = requests[j].url) =>
                  requests[i].messages # requests[j].messages
    /\ Program = "api_test" =>
          /\ Len(requests) <= 2
          /\ \A i \in 1..Len(requests) : requests[i].stream <=> i = 2

\* A call has failed and its failure has ended the function or the tool call.
Failed ==
    \/ pc = "raised"
    \/ mpc = "aborted"
    \/ spc = "raised"
    \/ apc = "failed"
    \/ tpc = "replied" /\ (reply.error # None \/ reply.choices = <<>>)
    \/ tpc \in {"returned", "raised"}

\* No step sends a request after a failure, a step sends one request at
\* most, and a lookup sends a request with an index above 0 only after the
\* determination of the request before it was "NOT_EXACT_MATCH".
C14_Step ==
    /\ Len(requests') <= Len(requests) + 1
    /\ Failed => requests' = requests
    /\ (Program = "lookups" /\ requests' # requests /\ attempt > 0) =>
          /\ requests'[Len(requests')].attempt = attempt
          /\ Len(determinations) = attempt
          /\ determinations[attempt] = NOT_EXACT_MATCH

\* C14: a remote call that failed is never sent again, in the lookups, in
\* the tools and in the conversation script; a request is repeated only
\* after a "NOT_EXACT_MATCH" determination.
C14_NoRetryOnFailure == []C14_State /\ [][C14_Step]_vars

C14_Witness ==
    /\ mpc = "aborted"
    /\ lookup = "owner"
    /\ attempt = 2
    /\ RequestsOf("owner") = {2, 3, 4}
    /\ determinations = <<NOT_EXACT_MATCH, NOT_EXACT_MATCH>>

====
